---- MODULE Spec2Model ----
(***************************************************************************)
(* Model of lib/cli.js of sharp-cli: the overridden cli.parse, which lets  *)
(* the yargs parser resolve the arguments (the sub-command handlers push   *)
(* their operations on the shared queue while it does so) and then         *)
(* unshifts one operation per triggered global option.                     *)
(*                                                                         *)
(* JavaScript values: an option of the resolved arguments is <<>> when it  *)
(* is undefined and <<v>> when it has the value v.  The arguments object   *)
(* itself is <<>> when it is null and <<a>> when it is the object a.       *)
(***************************************************************************)
EXTENDS Integers, Sequences, FiniteSets, TLC

\* Bounds of the model.
MaxSupplied == 3   \* options supplied on one command line
MaxCmds == 2       \* sub-commands on one command line
MaxRuns == 2       \* calls of cli.parse in one process

VARIABLES
    queue,    \* the shared operation queue (lib/queue), head first
    call,     \* the command line of the last call of cli.parse
    args,     \* the arguments the parser handed to the callback
    perr,     \* the error the parser handed to the callback
    err,      \* the error cli.parse handed to its own callback
    before,   \* the queue when cli.parse was called
    parsed,   \* the queue when the parser invoked the callback
    runs      \* number of calls of cli.parse so far

vars == <<queue, call, args, perr, err, before, parsed, runs>>

Null == "null"
Undefined == <<>>

BooleanOptions == {"adaptiveFiltering", "optimise", "optimiseScans",
                   "overshootDeringing", "progressive", "sequentialRead",
                   "trellisQuantisation", "withMetadata"}
NumberOptions == {"compressionLevel", "limitInputPixels", "quality"}
StringOptions == {"chromaSubsampling", "format", "output"}
ArrayOptions == {"input"}
OptionNames == BooleanOptions \cup NumberOptions \cup StringOptions \cup ArrayOptions

\* Options the model supplies with one value only.
SingleValued == {"adaptiveFiltering", "sequentialRead", "withMetadata"}

\* The values the model supplies for each option: true and false for a
\* boolean, a non-zero number and 0 for a number, a path list and the empty
\* list for input; one value for a string and for a SingleValued boolean.
OptionValue(o, k) ==
    CASE o \in SingleValued -> <<TRUE>>
      [] o \in BooleanOptions \ SingleValued -> <<(k = 1)>>
      [] o = "compressionLevel" -> IF k = 1 THEN <<6>> ELSE <<0>>
      [] o = "limitInputPixels" -> IF k = 1 THEN <<1000>> ELSE <<0>>
      [] o = "quality" -> IF k = 1 THEN <<90>> ELSE <<0>>
      [] o = "chromaSubsampling" -> <<"4:4:4">>
      [] o = "format" -> <<"png">>
      [] o = "output" -> <<"./">>
      [] o = "input" -> IF k = 1 THEN << <<"a.jpg">> >> ELSE << <<>> >>

\* JavaScript truthiness, by type.
TruthyBool(x) == x # Undefined /\ x[1] = TRUE
TruthyNum(x) == x # Undefined /\ x[1] # 0
TruthyStr(x) == x # Undefined /\ x[1] # ""
TruthyArr(x) == x # Undefined

\* JavaScript a || b on boolean options.
Or(x, y) == IF TruthyBool(x) THEN x ELSE y

\* Variant: the entry is put at the tail (queue.push in place of queue.unshift).
UnshiftAtTail(q, e) == Append(q, e)

\* queue.unshift(entry).
Unshift(q, e) == <<e>> \o q

Push(q, e) == Append(q, e)

Commands == {"resize", "rotate"}

\* The operation a sub-command handler pushes.
CommandEntry(c) ==
    IF c = "resize"
    THEN [label |-> "resize", params |-> [width |-> <<300>>, height |-> <<200>>]]
    ELSE [label |-> "rotate", params |-> [angle |-> <<180>>]]

RECURSIVE RunHandlers(_, _)
RunHandlers(q, cmds) ==
    IF cmds = <<>> THEN q
    ELSE RunHandlers(Push(q, CommandEntry(Head(cmds))), Tail(cmds))

\* implies: 'output' on input, implies: 'progressive' on optimiseScans.
ImpliesViolated(a) ==
    \/ a["input"] # Undefined /\ a["output"] = Undefined
    \/ a["optimiseScans"] # Undefined /\ a["progressive"] = Undefined

\* The yargs parser: the error, the arguments and the queue it leaves.
\* c.outcome is "ok", "rejected" (strict mode met an unknown flag, a demanded
\* option is missing on a terminal, a value is missing) or "fatal" (the parser
\* hands over no arguments at all).  The handlers of the sub-commands run
\* only when the command line is accepted.
OriginalParse(q, c) ==
    LET failed == c.outcome # "ok" \/ ImpliesViolated(c.argv)
    IN  [err |-> IF failed THEN "ParseError" ELSE Null,
         args |-> IF c.outcome = "fatal" THEN <<>> ELSE <<c.argv>>,
         queue |-> IF failed THEN q ELSE RunHandlers(q, c.cmds)]

\* Variant: a missing input counts as an empty one.
InputEmptyOrMissing(a) == a["input"] = Undefined \/ Len(a["input"][1]) = 0

\* args.input && args.input.length === 0
InputEmpty(a) == TruthyArr(a["input"]) /\ Len(a["input"][1]) = 0

FormatTriggered(a) == TruthyStr(a["format"])

\* Variant: quality is not among the triggers of the jpeg entry.
JpegTriggeredNoQuality(a) ==
    \/ TruthyStr(a["chromaSubsampling"])
    \/ TruthyBool(a["optimise"])
    \/ TruthyBool(a["optimiseScans"])
    \/ TruthyBool(a["overshootDeringing"])
    \/ TruthyBool(a["progressive"])
    \/ TruthyBool(a["trellisQuantisation"])

JpegTriggered(a) ==
    \/ TruthyStr(a["chromaSubsampling"])
    \/ TruthyBool(a["optimise"])
    \/ TruthyBool(a["optimiseScans"])
    \/ TruthyBool(a["overshootDeringing"])
    \/ TruthyBool(a["progressive"])
    \/ TruthyNum(a["quality"])
    \/ TruthyBool(a["trellisQuantisation"])

\* Variant: optimise is not a shorthand for the three sub-options.
JpegParamsNoShorthand(a) ==
    [chromaSubsampling |-> a["chromaSubsampling"],
     force |-> <<FALSE>>,
     optimiseScans |-> a["optimiseScans"],
     overshootDeringing |-> a["overshootDeringing"],
     progressive |-> a["progressive"],
     quality |-> a["quality"],
     trellisQuantisation |-> a["trellisQuantisation"]]

JpegParams(a) ==
    [chromaSubsampling |-> a["chromaSubsampling"],
     force |-> <<FALSE>>,
     optimiseScans |-> Or(a["optimise"], a["optimiseScans"]),
     overshootDeringing |-> Or(a["optimise"], a["overshootDeringing"]),
     progressive |-> a["progressive"],
     quality |-> a["quality"],
     trellisQuantisation |-> Or(a["optimise"], a["trellisQuantisation"])]

\* Variant: limitInputPixels is tested for truthiness.
LimitTriggeredTruthy(a) == TruthyNum(a["limitInputPixels"])

\* undefined !== args.limitInputPixels
LimitTriggered(a) == a["limitInputPixels"] # Undefined

PngTriggered(a) ==
    \/ TruthyBool(a["adaptiveFiltering"])
    \/ TruthyNum(a["compressionLevel"])
    \/ TruthyBool(a["progressive"])

PngParams(a) ==
    [adaptiveFiltering |-> a["adaptiveFiltering"],
     compressionLevel |-> a["compressionLevel"],
     force |-> <<FALSE>>,
     progressive |-> a["progressive"]]

QualityTriggered(a) == TruthyNum(a["quality"])

QualityParams(a) == [force |-> <<FALSE>>, quality |-> a["quality"]]

WithFormat(q, a) ==
    IF FormatTriggered(a)
    THEN Unshift(q, [label |-> "format", params |-> [format |-> a["format"]]])
    ELSE q

WithJpeg(q, a) ==
    IF JpegTriggered(a)
    THEN Unshift(q, [label |-> "jpeg", params |-> JpegParams(a)])
    ELSE q

WithLimitInputPixels(q, a) ==
    IF LimitTriggered(a)
    THEN Unshift(q, [label |-> "limitInputPixels",
                     params |-> [limitInputPixels |-> a["limitInputPixels"]]])
    ELSE q

WithPng(q, a) ==
    IF PngTriggered(a)
    THEN Unshift(q, [label |-> "png", params |-> PngParams(a)])
    ELSE q

WithSequentialRead(q, a) ==
    IF TruthyBool(a["sequentialRead"])
    THEN Unshift(q, [label |-> "sequentialRead", params |-> <<>>])
    ELSE q

WithQuality(q, a) ==
    IF QualityTriggered(a)
    THEN Unshift(Unshift(q, [label |-> "tiff", params |-> QualityParams(a)]),
                 [label |-> "webp", params |-> QualityParams(a)])
    ELSE q

WithMetadata(q, a) ==
    IF TruthyBool(a["withMetadata"])
    THEN Unshift(q, [label |-> "withMetadata", params |-> <<>>])
    ELSE q

\* Variant: png is handled before limitInputPixels.
GlobalOptionsPngFirst(q, a) ==
    WithMetadata(
      WithQuality(
        WithSequentialRead(
          WithLimitInputPixels(
            WithPng(
              WithJpeg(
                WithFormat(q, a), a), a), a), a), a), a)

\* The global options, in the order the callback handles them.
GlobalOptions(q, a) ==
    WithMetadata(
      WithQuality(
        WithSequentialRead(
          WithPng(
            WithLimitInputPixels(
              WithJpeg(
                WithFormat(q, a), a), a), a), a), a), a)

\* The callback cli.parse gives the parser.
ParseCallback(e, as, q) ==
    IF as # <<>>
    THEN [err |-> IF InputEmpty(as[1])
                  THEN "Not enough arguments following: i, input"
                  ELSE e,
          queue |-> GlobalOptions(q, as[1])]
    ELSE [err |-> e, queue |-> q]

NoArgv == [o \in OptionNames |-> Undefined]

Init ==
    /\ queue = <<>>
    /\ call = [argv |-> NoArgv, cmds |-> <<>>, outcome |-> "ok"]
    /\ args = <<>>
    /\ perr = Null
    /\ err = Null
    /\ before = <<>>
    /\ parsed = <<>>
    /\ runs = 0

\* cli.parse(argv, callback), as a whole.
DoParse(c) ==
    LET res == OriginalParse(queue, c)
        out == ParseCallback(res.err, res.args, res.queue)
    IN  /\ call' = c
        /\ args' = res.args
        /\ perr' = res.err
        /\ before' = queue
        /\ parsed' = res.queue
        /\ err' = out.err
        /\ queue' = out.queue
        /\ runs' = runs + 1

CmdSeqs == UNION {[1..n -> Commands] : n \in 0..MaxCmds}

\* The command lines within the bounds: at most MaxSupplied options.
Argvs ==
    UNION {{[o \in OptionNames |-> IF o \in S THEN OptionValue(o, k[o]) ELSE Undefined] :
              k \in [S -> {1, 2}]} :
           S \in {T \in SUBSET OptionNames : Cardinality(T) <= MaxSupplied}}

\* The first call, on a command line the parser accepts unless an implies
\* rule is violated.
Parse ==
    /\ runs = 0
    /\ \E argv \in Argvs, cmds \in CmdSeqs :
         DoParse([argv |-> argv, cmds |-> cmds, outcome |-> "ok"])

\* The first call, on a command line the parser rejects: no handler runs,
\* so the sub-commands on it are left out.
ParseRejected ==
    /\ runs = 0
    /\ \E argv \in Argvs :
         DoParse([argv |-> argv, cmds |-> <<>>, outcome |-> "rejected"])

\* The first call, when the parser hands over no arguments.
ParseFatal ==
    /\ runs = 0
    /\ DoParse([argv |-> NoArgv, cmds |-> <<>>, outcome |-> "fatal"])

\* A further call in the same process, on the same command line.
Reparse ==
    /\ runs >= 1
    /\ runs < MaxRuns
    /\ DoParse(call)

Next == Parse \/ ParseRejected \/ ParseFatal \/ Reparse

Spec == Init /\ [][Next]_vars

(***************************************************************************)
(* Properties.                                                             *)
(***************************************************************************)

GlobalLabels == {"format", "jpeg", "limitInputPixels", "png", "sequentialRead",
                 "tiff", "webp", "withMetadata"}

\* The entries the last call of cli.parse put in front of the queue.
Prefix == SubSeq(queue, 1, Len(queue) - Len(parsed))

Labels(q) == [i \in 1..Len(q) |-> q[i].label]

Count(q, l) == Cardinality({i \in 1..Len(q) : q[i].label = l})

Called == runs >= 1

HasArgs == Called /\ args # <<>>

Arg(o) == args[1][o]

\* Position of a label in the list format, jpeg, ..., withMetadata.
Rank(l) ==
    CASE l = "format" -> 1
      [] l = "jpeg" -> 2
      [] l = "limitInputPixels" -> 3
      [] l = "png" -> 4
      [] l = "sequentialRead" -> 5
      [] l = "tiff" -> 6
      [] l = "webp" -> 7
      [] l = "withMetadata" -> 8

\* C1 (as stated): the entries cli.parse prepends appear, head to tail, in
\* the relative order format, jpeg, limitInputPixels, png, sequentialRead,
\* tiff, webp, withMetadata.
C1_ListedOrder ==
    \A i, j \in 1..Len(Prefix) :
        i < j => Rank(Prefix[i].label) < Rank(Prefix[j].label)

\* C1 (amended): the entries cli.parse prepends appear, head to tail, in
\* the reverse of that order: withMetadata, webp, tiff, sequentialRead, png,
\* limitInputPixels, jpeg, format.
C1_ReverseOrder ==
    \A i, j \in 1..Len(Prefix) :
        i < j => Rank(Prefix[i].label) > Rank(Prefix[j].label)

C1_Witness ==
    /\ Called
    /\ Len(Prefix) >= 4
    /\ Prefix[1].label = "withMetadata"
    /\ Prefix[Len(Prefix)].label = "format"

\* C2: after cli.parse the entries of the sub-command handlers are still in
\* the queue, unchanged and in command-line order, behind every entry
\* prepended for a global option; the global-option step only inserts at
\* the front.
C2_CommandsKept ==
    /\ Len(queue) >= Len(parsed)
    /\ SubSeq(queue, Len(queue) - Len(parsed) + 1, Len(queue)) = parsed
    /\ \A i \in 1..Len(Prefix) : Prefix[i].label \in GlobalLabels
    /\ (Called /\ perr = Null) =>
          parsed = before \o [i \in 1..Len(call.cmds) |-> CommandEntry(call.cmds[i])]
    /\ \A i \in 1..(Len(queue) - 1) :
          queue[i].label \in Commands => queue[i + 1].label \in Commands

C2_Witness ==
    /\ Called
    /\ perr = Null
    /\ call.cmds = <<"resize", "rotate">>
    /\ Len(Prefix) >= 2
    /\ Labels(SubSeq(queue, Len(queue) - 1, Len(queue))) = <<"resize", "rotate">>

\* C3: whenever cli.parse hands a non-null error to its callback, the
\* global-option step has prepended nothing.
C3_NoPrependOnError == (Called /\ err # Null) => queue = parsed

\* quality is the only option of the resolved arguments, with the value 90,
\* there is no sub-command and the queue was empty.
OnlyQuality ==
    /\ HasArgs
    /\ before = <<>>
    /\ call.cmds = <<>>
    /\ Arg("quality") = <<90>>
    /\ \A o \in OptionNames \ {"quality"} : Arg(o) = Undefined

\* C4 (as stated): with quality alone the queue holds exactly two entries,
\* one tiff and one webp, and no jpeg and no png.
C4_TwoEntries ==
    OnlyQuality =>
        /\ Len(queue) = 2
        /\ Count(queue, "tiff") = 1
        /\ Count(queue, "webp") = 1
        /\ Count(queue, "jpeg") = 0
        /\ Count(queue, "png") = 0

\* C4 (amended): with a non-zero quality alone the queue holds exactly three
\* entries, webp, tiff and jpeg, and no png.
C4_ThreeEntries == OnlyQuality => Labels(queue) = <<"webp", "tiff", "jpeg">>

C4_Witness == OnlyQuality /\ Len(queue) = 3

\* An option was supplied: a flag is set, a number or a string has a value.
Flag(o) == Arg(o) = <<TRUE>>
Given(o) == Arg(o) # Undefined

JpegSupplied ==
    \/ Given("chromaSubsampling") \/ Flag("optimise") \/ Flag("optimiseScans")
    \/ Flag("overshootDeringing") \/ Flag("progressive") \/ Given("quality")
    \/ Flag("trellisQuantisation")

PngSupplied ==
    Flag("adaptiveFiltering") \/ Given("compressionLevel") \/ Flag("progressive")

\* C5: on a successful resolution exactly one jpeg entry is prepended if one
\* of its seven options was supplied and none otherwise, and likewise one
\* png entry for its three options; quality and compressionLevel count as
\* supplied whatever their value.
C5_TriggeredWhenSupplied ==
    (HasArgs /\ err = Null) =>
        /\ Count(Prefix, "jpeg") = (IF JpegSupplied THEN 1 ELSE 0)
        /\ Count(Prefix, "png") = (IF PngSupplied THEN 1 ELSE 0)

SubOptions == {"optimiseScans", "overshootDeringing", "trellisQuantisation"}

\* The jpeg entry of the last call (there is at most one).
JpegEntry == Prefix[CHOOSE i \in 1..Len(Prefix) : Prefix[i].label = "jpeg"]

HasJpeg == HasArgs /\ Count(Prefix, "jpeg") = 1

AllEnabled == \A s \in SubOptions : JpegEntry.params[s] = <<TRUE>>

\* optimise alone and the three sub-options alone both enable all three.
C6_Shorthand ==
    HasJpeg =>
        /\ (Flag("optimise") /\ \A s \in SubOptions : ~Given(s)) => AllEnabled
        /\ (~Flag("optimise") /\ \A s \in SubOptions : Flag(s)) => AllEnabled

\* C6 (as stated): optimise alone passes the same three parameters, all
\* enabled, as the three sub-options set individually, and optimise leaves
\* a sub-option as it was individually set.
C6_KeepsIndividual ==
    /\ C6_Shorthand
    /\ (HasJpeg /\ Flag("optimise")) =>
          \A s \in SubOptions : Given(s) => JpegEntry.params[s] = Arg(s)

\* C6 (amended): optimise alone passes the same three parameters, all
\* enabled, as the three sub-options set individually; with optimise set
\* every sub-option is passed as enabled, also one individually set to
\* false, and without optimise every sub-option is passed as it was set.
C6_OptimiseWins ==
    /\ C6_Shorthand
    /\ (HasJpeg /\ Flag("optimise")) => AllEnabled
    /\ (HasJpeg /\ ~Flag("optimise")) =>
          \A s \in SubOptions : JpegEntry.params[s] = Arg(s)

C6_Witness ==
    /\ HasJpeg
    /\ Flag("optimise")
    /\ Arg("trellisQuantisation") = <<FALSE>>
    /\ Arg("overshootDeringing") = Undefined
    /\ AllEnabled

\* C7: a second run of cli.parse on the same arguments leaves the queue
\* with the length and the labels it had after the first run.
C7_SameQueueOnRerun == [][Called => Labels(queue') = Labels(queue)]_vars

\* C8: whenever quality is supplied, the call puts one webp and one tiff
\* entry in the queue, the webp entry directly in front of the tiff entry.
C8_WebpBeforeTiff ==
    (HasArgs /\ Given("quality")) =>
        /\ Count(Prefix, "webp") = 1
        /\ Count(Prefix, "tiff") = 1
        /\ \E i \in 1..(Len(Prefix) - 1) :
              Prefix[i].label = "webp" /\ Prefix[i + 1].label = "tiff"

\* C9: a limitInputPixels entry is prepended exactly when the option is
\* present in the resolved arguments, also with the value 0, and it passes
\* the supplied value unchanged.
C9_LimitInputPixels ==
    /\ (HasArgs /\ Given("limitInputPixels")) =>
          /\ Count(Prefix, "limitInputPixels") = 1
          /\ \A i \in 1..Len(Prefix) :
                Prefix[i].label = "limitInputPixels" =>
                    Prefix[i].params.limitInputPixels = Arg("limitInputPixels")
    /\ ~(HasArgs /\ Given("limitInputPixels")) =>
          Count(Prefix, "limitInputPixels") = 0

C9_Witness ==
    /\ HasArgs
    /\ Arg("limitInputPixels") = <<0>>
    /\ Count(Prefix, "limitInputPixels") = 1

\* C10: input supplied with an empty list gives the callback a non-null
\* error, also when the parser reported none; without input the parser's
\* own error value reaches the callback unchanged.
C10_EmptyInput ==
    /\ (HasArgs /\ Arg("input") = << <<>> >>) =>
          err = "Not enough arguments following: i, input"
    /\ (Called /\ (args = <<>> \/ Arg("input") = Undefined)) => err = perr

C10_Witness ==
    /\ HasArgs
    /\ Arg("input") = << <<>> >>
    /\ perr = Null
    /\ err # Null

====
